---------------------------- MODULE Spec2Model ----------------------------
(***************************************************************************)
(* Model of the Wannier90 parser of nomad-parser-wannier90                 *)
(* (src/src/nomad_parser_wannier90/parser.py).                             *)
(*                                                                         *)
(* Conventions.                                                            *)
(*  - Python None is the empty sequence <<>>, a present value x is <<x>>.  *)
(*  - Fractional k-point coordinates and reciprocal lattice entries are    *)
(*    integers (a common scale factor cancels in every ratio the code      *)
(*    forms).  Norms are compared through their squares, so that           *)
(*    round(|b-a| / delta_k) is computed exactly, ties to even, as         *)
(*    Python's round() does on the exact quotient.                         *)
(*  - A generated k-point start + i*(end-start)/c is the record            *)
(*    [num |-> c*start + i*(end-start), den |-> c].                        *)
(*  - An exception that no handler catches ends the run: pc = "raised"     *)
(*    and raised names the exception and the stage it left.                *)
(***************************************************************************)
EXTENDS Integers, Sequences, FiniteSets, TLC

VARIABLES
    pc,          \* position of the run: the stage to execute next
    raised,      \* the uncaught exception, and the stage it left
    log,         \* sequence of logger messages emitted so far
    wout,        \* quantities WOutParser extracts from the .wout file
    win,         \* the .win input file as found by parse_winput
    hr,          \* the *hr.dat file as found by parse_hoppings
    band,        \* the *band.dat file as found by parse_bandstructure
    dosfile,     \* the *dos.dat file as found by parse_dos
    run,         \* archive.run[-1] without its calculation
    calc,        \* archive.run[-1].calculation[-1]
    kres         \* result of the last get_k_points call

vars == <<pc, raised, log, wout, win, hr, band, dosfile, run, calc, kres>>

(***************************************************************************)
(* Bounds of the model.                                                    *)
(***************************************************************************)
MaxDiv == 3        \* largest "Divisions along first K-path section"
MaxSegments == 2   \* largest number of K-path sections
MaxDeg == 3        \* longest integer block after the "written on" header
MaxBandLen == 6     \* most rows of the band energy table
MaxWS == 3          \* Wigner-Seitz point counts of the hopping stage alone
MaxFactors == 2     \* degeneracy factors after the two header integers
MaxOrbitals == 2    \* Wannier functions of the hopping stage alone
MaxDosRows == 3     \* rows of the DOS table of the DOS stage alone

None == <<>>
Some(x) == <<x>>
IsNone(o) == o = <<>>
Val(o) == o[1]

(***************************************************************************)
(* Vector helpers (numpy arithmetic on 3-vectors).                         *)
(***************************************************************************)
Dot(k, B) ==
    << k[1] * B[1][1] + k[2] * B[2][1] + k[3] * B[3][1],
       k[1] * B[1][2] + k[2] * B[2][2] + k[3] * B[3][2],
       k[1] * B[1][3] + k[2] * B[2][3] + k[3] * B[3][3] >>

VSub(a, b) == << a[1] - b[1], a[2] - b[2], a[3] - b[3] >>
VAdd(a, b) == << a[1] + b[1], a[2] + b[2], a[3] + b[3] >>
VScale(c, a) == << c * a[1], c * a[2], c * a[3] >>
NormSq(v) == v[1] * v[1] + v[2] * v[2] + v[3] * v[3]

RECURSIVE SumSeq(_)
SumSeq(s) == IF s = <<>> THEN 0 ELSE Head(s) + SumSeq(Tail(s))

RECURSIVE Concat(_)
Concat(ss) == IF ss = <<>> THEN <<>> ELSE Head(ss) \o Concat(Tail(ss))

\* variant: ties are rounded up (round half up)
RoundSqrtRatio_HalfUp(num, den) ==
    LET cand == {k \in 0..(num + 1) :
                    k = 0 \/ (2 * k - 1) * (2 * k - 1) * den <= 4 * num}
    IN CHOOSE k \in cand : \A j \in cand : j <= k

(***************************************************************************)
(* round(sqrt(num / den)) for num >= 0, den > 0, ties to even.             *)
(* k = floor(x + 1/2) is the largest k with (2k-1)^2 * den <= 4 * num;     *)
(* on an exact tie Python rounds to the even neighbour.                    *)
(***************************************************************************)
RoundSqrtRatio(num, den) ==
    LET cand == {k \in 0..(num + 1) :
                    k = 0 \/ (2 * k - 1) * (2 * k - 1) * den <= 4 * num}
        up == CHOOSE k \in cand : \A j \in cand : j <= k
        tie == up > 0 /\ (2 * up - 1) * (2 * up - 1) * den = 4 * num
    IN IF tie /\ up % 2 = 1 THEN up - 1 ELSE up

(***************************************************************************)
(* Wannier90Parser.get_k_points                                            *)
(***************************************************************************)
KResult(outcome, exc, n, counts, kpts) ==
    [outcome |-> outcome, exc |-> exc, n_kpoints |-> n,
     band_segments_points |-> counts, kpoints |-> kpts]

\* cartesian squared length of declared segment ns
SegLenSq(w, ns) ==
    LET B == Val(w.reciprocal_lattice_vectors)
        seg == w.band_segments_points[ns]
    IN NormSq(VSub(Dot(seg[2], B), Dot(seg[1], B)))

\* n_k_segments_points of segment ns: round(|segment| / delta_k) with
\* delta_k = |first segment| / div_first_k_segment
SegmentCount(w, ns) ==
    LET d == Val(w.div_first_k_segment)
    IN IF d = 0 THEN 0   \* delta_k = inf, every quotient is 0.0
       ELSE RoundSqrtRatio(d * d * SegLenSq(w, ns), SegLenSq(w, 1))

\* variant: the segment's end point is generated as well (i <= c)
SegmentKPoints_Inclusive(seg, c) ==
    [i \in 1..(c + 1) |->
        [num |-> VAdd(VScale(c, seg[1]), VScale(i - 1, VSub(seg[2], seg[1]))),
         den |-> c]]

\* the list comprehension of one segment: start + i*(end-start)/c, i < c
SegmentKPoints(seg, c) ==
    [i \in 1..c |->
        [num |-> VAdd(VScale(c, seg[1]), VScale(i - 1, VSub(seg[2], seg[1]))),
         den |-> c]]

\* variant: the count of the last segment is left as computed
BumpLast_Unchanged(counts) == counts

\* band_segments_points[-1] += 1
BumpLast(counts) ==
    [n \in 1..Len(counts) |->
        IF n = Len(counts) THEN counts[n] + 1 ELSE counts[n]]

\* variant: the end point of the path is not appended
AppendLast_Skipped(kpts, point) == kpts

\* kpoints[-1].append(k_symm_points[-1])
AppendLast(kpts, point) ==
    [n \in 1..Len(kpts) |->
        IF n = Len(kpts) THEN Append(kpts[n], point) ELSE kpts[n]]

GetKPoints(w) ==
    IF IsNone(w.reciprocal_lattice_vectors)
    THEN KResult("none", "", 0, <<>>, <<>>)
    ELSE IF IsNone(w.n_k_segments)
    THEN KResult("raise", "TypeError", 0, <<>>, <<>>)   \* range([])
    ELSE LET nseg == Val(w.n_k_segments) IN
    IF nseg > Len(w.band_segments_points)
    THEN KResult("raise", "IndexError", 0, <<>>, <<>>)
    ELSE IF nseg = 0
    THEN KResult("raise", "IndexError", 0, <<>>, <<>>)  \* k_symm_points_cart[1]
    ELSE IF IsNone(w.div_first_k_segment)
    THEN KResult("raise", "TypeError", 0, <<>>, <<>>)   \* norm / None
    ELSE IF SegLenSq(w, 1) = 0
    THEN KResult("raise", "ValueError", 0, <<>>, <<>>)  \* round(nan)
    ELSE
        LET counts == [ns \in 1..nseg |-> SegmentCount(w, ns)]
            kpts == [ns \in 1..nseg |->
                        SegmentKPoints(w.band_segments_points[ns], counts[ns])]
            last == [num |-> w.band_segments_points[nseg][2], den |-> 1]
            bumped == BumpLast(counts)
        IN KResult("ok", "", SumSeq(bumped), bumped, AppendLast(kpts, last))

NoKResult == KResult("pending", "", 0, <<>>, <<>>)

(***************************************************************************)
(* The archive and the logger.                                             *)
(***************************************************************************)
Msg(level, stage, text) == [level |-> level, stage |-> stage, text |-> text]

EmptyRun ==
    [ exists |-> FALSE, program |-> FALSE, system |-> <<>>, method |-> <<>>,
      x_wannier90_units |-> None, x_wannier90_n_atoms_proj |-> None,
      n_atoms_group |-> 0, workflow2 |-> FALSE, data |-> FALSE,
      model_system |-> <<>>, model_method |-> 0, outputs |-> <<>> ]

EmptyCalc ==
    [ exists |-> FALSE, hopping_matrix |-> <<>>, energy |-> None,
      band_structure_electronic |-> <<>>, dos_electronic |-> <<>> ]

\* result of one stage: the archive sections it leaves, what it logged, and
\* whether an exception left it
StageResult(r, c, l, exc) == [run |-> r, calc |-> c, log |-> l, exc |-> exc]

(***************************************************************************)
(* Wannier90Parser.parse_system                                            *)
(***************************************************************************)
ParseSystemResult(r, c, w) ==
    IF ~w.structure
    THEN StageResult([r EXCEPT !.system = Append(@, [atoms |-> None])], c,
                     << Msg("error", "parse_system",
                            "Error parsing the structure from .wout") >>, "")
    ELSE LET atoms == [lattice_vectors |-> w.lattice_vectors,
                       lattice_vectors_reciprocal |->
                           ~IsNone(w.reciprocal_lattice_vectors),
                       labels |-> FALSE]
         IN IF ~w.lattice_vectors
            \* the name lattice_vectors is read without ever being bound
            THEN StageResult(
                     [r EXCEPT !.system = Append(@, [atoms |-> Some(atoms)])],
                     c, <<>>, "UnboundLocalError")
            ELSE StageResult(
                     [r EXCEPT !.system = Append(@,
                         [atoms |-> Some([atoms EXCEPT !.labels = TRUE])])],
                     c, <<>>, "")

(***************************************************************************)
(* Wannier90Parser.parse_method (the Wannier section's orbital count)      *)
(***************************************************************************)
ParseMethodResult(r, c, w) ==
    StageResult(
        [r EXCEPT !.method = Append(@, [n_projected_orbitals |-> w.Nwannier])],
        c, <<>>, "")

(***************************************************************************)
(* Wannier90Parser.parse_winput.  projections is the list of the first     *)
(* tokens projections[i][0] of the .win projections block.                 *)
(***************************************************************************)
UnitKeys == {"Ang", "Bohr"}   \* keys of _input_projection_units

ParseWinputResult(r, c, wi) ==
    IF ~wi.exists
    THEN StageResult(r, c, << Msg("warning", "parse_winput",
                                  "Input .win file not found.") >>, "")
    ELSE LET p0 == wi.projections
             hasUnits == p0 # <<>> /\ Head(p0) \in {"Bohr", "Angstrom"}
             p1 == IF hasUnits THEN Tail(p0) ELSE p0
             units == IF p0 = <<>> THEN r.x_wannier90_units
                      ELSE IF hasUnits
                           THEN Some(IF Head(p0) = "Bohr" THEN "bohr" ELSE "?")
                           ELSE Some("angstrom")
             r1 == [r EXCEPT !.x_wannier90_units = units]
             atomsNone == IsNone(r.system[Len(r.system)].atoms)
         IN IF hasUnits /\ Head(p0) \notin UnitKeys
            THEN StageResult(r, c, <<>>, "KeyError")
            ELSE IF p0 # <<>> /\ p1 = <<>>
            THEN StageResult(r1, c, <<>>, "IndexError")   \* projections[0][0]
            ELSE IF p0 # <<>> /\ Head(p1) = "random"
            THEN StageResult(r1, c, <<>>, "")
            ELSE StageResult(
                    [r1 EXCEPT !.x_wannier90_n_atoms_proj = Some(Len(p1)),
                               !.n_atoms_group = @ + Len(p1)],
                    c,
                    IF atomsNone
                    THEN [i \in 1..Len(p1) |->
                            Msg("warning", "parse_winput",
                                "Error finding the atom labels for the projection from win.")]
                    ELSE <<>>,
                    "")

(***************************************************************************)
(* Wannier90Parser.parse_hoppings                                          *)
(***************************************************************************)
HoppingFields == 7   \* last dimension of the reshaped hopping tensor
FermiField == 5      \* field index read as the onsite energy

\* np.reshape(full_hoppings, (nws, norb*norb, 7)): None when it raises
ReshapeHoppings(full, nws, norb) ==
    IF IsNone(norb) THEN None                     \* None * None
    ELSE IF Len(full) # nws * (Val(norb) * Val(norb)) * HoppingFields THEN None
    ELSE Some([shape |-> <<nws, Val(norb) * Val(norb), HoppingFields>>,
               data |-> full])

\* value[a][b][f] of a reshaped tensor, 0-based indices: None when the
\* lookup raises
HoppingAt(value, a, b, f) ==
    IF IsNone(value) THEN None
    ELSE LET v == Val(value) IN
         IF a >= v.shape[1] \/ b >= v.shape[2] \/ f >= v.shape[3] THEN None
         ELSE Some(v.data[(a * v.shape[2] + b) * v.shape[3] + f + 1])

\* variant: the half is rounded up
WignerSeitzHalf_RoundUp(nws) == (nws + 1) \div 2

\* int(0.5 * n_wigner_seitz_points)
WignerSeitzHalf(nws) == nws \div 2

\* variant: highest_occupied is left unset
HoppingEnergy_FermiOnly(hm) ==
    [fermi |-> HoppingAt(hm.value,
                         WignerSeitzHalf(Val(hm.n_wigner_seitz_points)),
                         0, FermiField),
     highest_occupied |-> None]

\* the Energy section of the closing try block
HoppingEnergy(hm) ==
    LET ef == HoppingAt(hm.value, WignerSeitzHalf(Val(hm.n_wigner_seitz_points)),
                        0, FermiField)
    IN [fermi |-> ef, highest_occupied |-> ef]

\* variant: the count is read from the first integer of the block
WignerSeitzCount_First(deg) == deg[1]

\* deg_factors[1] and deg_factors[2:] (0-based) of the integer block
WignerSeitzCount(deg) == deg[2]
DegeneracyFactors(deg) == SubSeq(deg, 3, Len(deg))

ParseHoppingsResult(r, c, h) ==
    IF ~h.exists THEN StageResult(r, c, <<>>, "")
    ELSE LET deg == h.deg
             hm0 == [n_orbitals |-> r.method[Len(r.method)].n_projected_orbitals,
                     n_wigner_seitz_points |-> None,
                     degeneracy_factors |-> None,
                     value |-> None]
         IN IF Len(deg) < 2
            \* deg_factors[1] on the default [] (or a one-token block)
            THEN StageResult(r, [c EXCEPT !.hopping_matrix = Append(@, hm0)],
                             <<>>, "IndexError")
            ELSE LET value == ReshapeHoppings(h.hoppings, WignerSeitzCount(deg),
                                              hm0.n_orbitals)
                     hm == [hm0 EXCEPT
                              !.n_wigner_seitz_points = Some(WignerSeitzCount(deg)),
                              !.degeneracy_factors = Some(DegeneracyFactors(deg)),
                              !.value = value]
                 IN StageResult(r,
                        [c EXCEPT !.hopping_matrix = Append(@, hm),
                                  !.energy = Some(HoppingEnergy(hm))],
                        IF IsNone(value)
                        THEN << Msg("warning", "parse_hoppings",
                                    "Could not parse the hopping matrix values. Please, revise your output files.") >>
                        ELSE <<>>,
                        "")

(***************************************************************************)
(* Wannier90Parser.parse_bandstructure                                     *)
(***************************************************************************)
\* variant: two spin channels
NSpin_Two == 1 + 1

NSpin == 1

\* Python round(a / b) for integers a >= 0, b > 0: nearest, ties to even
RoundDiv(a, b) ==
    LET q == a \div b
        r2 == 2 * (a % b)
    IN IF r2 < b THEN q
       ELSE IF r2 > b THEN q + 1
       ELSE IF q % 2 = 0 THEN q ELSE q + 1

\* variant: reshape to (n_kpoints, n_bands) without the transpose
ReshapeBands_NoTranspose(flat, n_bands, n_kpoints) ==
    IF n_bands * n_kpoints # Len(flat) THEN None
    ELSE Some([k \in 1..n_kpoints |->
                 [b \in 1..n_bands |-> flat[(k - 1) * n_bands + b]]])

\* np.transpose(np.reshape(flat, (n_bands, n_kpoints))): bands[k][b], None
\* when the reshape raises
ReshapeBands(flat, n_bands, n_kpoints) ==
    IF n_bands * n_kpoints # Len(flat) THEN None
    ELSE Some([k \in 1..n_kpoints |->
                 [b \in 1..n_bands |-> flat[(b - 1) * n_kpoints + k]]])

\* variant: a level at the Fermi energy counts as occupied
Occupation_Inclusive(energy, fermi_eV) == IF energy <= fermi_eV THEN 2 ELSE 0

\* 2.0 if energy < energy_fermi_eV else 0.0
Occupation(energy, fermi_eV) == IF energy < fermi_eV THEN 2 ELSE 0

\* variant: bkp_init is never advanced
SegmentStart_Stuck(counts, n) == 0

\* first row (0-based bkp_init) of segment n
SegmentStart(counts, n) == SumSeq(SubSeq(counts, 1, n - 1))

\* the BandEnergies section of segment n
BandSegment(bands, counts, kpoints, n, fermi_eV) ==
    LET bkp_init == SegmentStart(counts, n)
        energies == [s \in 1..NSpin |->
                       [j \in 1..counts[n] |-> bands[bkp_init + j]]]
    IN [ n_kpoints |-> counts[n],
         kpoints |-> kpoints[n],
         bkp_init |-> bkp_init,
         bkp_last |-> bkp_init + counts[n],
         energies |-> energies,
         occupations |->
            [s \in 1..NSpin |->
               [j \in 1..counts[n] |->
                  [k \in 1..Len(energies[s][j]) |->
                      Occupation(energies[s][j][k], fermi_eV)]]] ]

\* variant: the fallback 0.0 eV is used whatever parse_hoppings derived
EnergyFermi_Fallback(c) == Some(0)

\* energy_fermi: sec_scc.energy.fermi, or 0.0 eV when reading it raises
EnergyFermi(c) == IF IsNone(c.energy) THEN Some(0) ELSE Val(c.energy).fermi

ParseBandstructureResult(r, c, w, b) ==
    LET noEnergy == IsNone(c.energy)    \* sec_scc.energy.fermi raises
        fermi == EnergyFermi(c)
        log1 == IF noEnergy
                THEN << Msg("warning", "parse_bandstructure",
                            "Error setting the Fermi level: not found from hoppings. Setting it to 0 eV") >>
                ELSE <<>>
    IN IF IsNone(fermi)
       \* energy_fermi.to('electron_volt') on None
       THEN StageResult(r, c, log1, "AttributeError")
       ELSE IF ~b.exists THEN StageResult(r, c, log1, "")
       ELSE
       LET fermi_eV == Val(fermi)
           atoms == r.system[1].atoms
           log2 == IF IsNone(atoms)
                   THEN Append(log1, Msg("warning", "parse_bandstructure",
                            "Reciprocal cell in band_structure_electronic not set up."))
                   ELSE log1
           kband == [ energy_fermi |-> fermi_eV,
                      reciprocal_cell |-> ~IsNone(atoms)
                            /\ Val(atoms).lattice_vectors_reciprocal,
                      segment |-> <<>> ]
           c1 == [c EXCEPT !.band_structure_electronic = Append(@, kband)]
       IN IF IsNone(b.data) THEN StageResult(r, c1, log2, "")
          ELSE
          LET flat == Val(b.data)
              k == GetKPoints(w)
          IN IF k.outcome = "none"
             THEN StageResult(r, c1, log2, "TypeError")   \* unpacking None
             ELSE IF k.outcome = "raise"
             THEN StageResult(r, c1, log2, k.exc)
             ELSE
             LET n_bands == RoundDiv(Len(flat), k.n_kpoints)
                 bands == ReshapeBands(flat, n_bands, k.n_kpoints)
             IN IF IsNone(bands)
                THEN StageResult(r, c1,
                        Append(log2, Msg("warning", "parse_bandstructure",
                            "Could not reshape the bands into the NOMAD dimensions.")),
                        "")
                ELSE
                LET segs == [n \in 1..Len(k.band_segments_points) |->
                               BandSegment(Val(bands), k.band_segments_points,
                                           k.kpoints, n, fermi_eV)]
                IN StageResult(r,
                      [c EXCEPT !.band_structure_electronic =
                           Append(@, [kband EXCEPT !.segment = segs])],
                      log2, "")

(***************************************************************************)
(* Wannier90Parser.parse_dos.  data is the table as a sequence of rows     *)
(* <<energy, value>>.                                                      *)
(***************************************************************************)
\* variant: the column is read from the last row to the first
Column_Reversed(rows, j) == [i \in 1..Len(rows) |-> rows[Len(rows) + 1 - i][j]]

Column(rows, j) == [i \in 1..Len(rows) |-> rows[i][j]]

ParseDosResult(r, c, d) ==
    LET noEnergy == IsNone(c.energy)
        fermi == IF noEnergy THEN Some(0) ELSE Val(c.energy).fermi
        log1 == IF noEnergy
                THEN << Msg("warning", "parse_dos",
                            "Error setting the Fermi level: not found from hoppings. Setting it to 0 eV") >>
                ELSE <<>>
        dos0 == [ energy_fermi |-> fermi, n_energies |-> None,
                  energies |-> None, total |-> <<>> ]
    IN IF ~d.exists THEN StageResult(r, c, log1, "")
       ELSE IF IsNone(d.data)
       \* data[0] on the 0-d array np.transpose(None)
       THEN StageResult(r, [c EXCEPT !.dos_electronic = Append(@, dos0)],
                        log1, "IndexError")
       ELSE LET rows == Val(d.data)
            IN StageResult(r,
                  [c EXCEPT !.dos_electronic = Append(@,
                      [dos0 EXCEPT !.n_energies = Some(Len(rows)),
                                   !.energies = Some(Column(rows, 1)),
                                   !.total = << [value |-> Column(rows, 2)] >>])],
                  log1, "")

(***************************************************************************)
(* Wannier90ParserData.parse: init_parser reads self.logger, which neither *)
(* __init__ nor parse assigns.                                             *)
(***************************************************************************)
DataParserHasLogger == FALSE

\* Wannier90ParserData.parse_model_system with parse_atomic_cell: None and
\* an error when the structure was not matched
ParseModelSystem(w) ==
    IF ~w.structure
    THEN [model_system |-> None, exc |-> "",
          log |-> << Msg("error", "data_parse",
                         "Error parsing the structure from .wout") >>]
    ELSE IF ~w.lattice_vectors
         \* parse_atomic_cell reads lattice_vectors without binding it
         THEN [model_system |-> None, exc |-> "UnboundLocalError",
               log |-> <<>>]
         ELSE [model_system |-> Some([is_representative |-> TRUE, cell |-> 1]),
               exc |-> "", log |-> <<>>]

\* Wannier90ParserData.parse_output with parse_fermi_level and parse_dos:
\* the Outputs section refers to the last ModelSystem of the simulation
ParseOutput(r, dos) ==
    IF r.model_system = <<>>
    THEN [run |-> r, exc |-> "IndexError"]
    ELSE LET output == [model_system_ref |-> Len(r.model_system),
                        n_band_gaps |-> 2, n_fermi_levels |-> 1,
                        n_dos |-> 0]
             attached == [r EXCEPT !.outputs = Append(@, output)]
         IN IF ~dos.exists
            THEN [run |-> attached, exc |-> ""]
            ELSE IF IsNone(dos.data)
                 THEN [run |-> attached, exc |-> "IndexError"]
                 ELSE [run |-> [r EXCEPT !.outputs =
                                   Append(@, [output EXCEPT !.n_dos = 1])],
                       exc |-> ""]

DataParseResult(r, c, w, dos) ==
    IF ~DataParserHasLogger
    THEN StageResult(r, c, <<>>, "AttributeError")
    ELSE LET r1 == [r EXCEPT !.data = TRUE]
             ms == ParseModelSystem(w)
             r2 == IF IsNone(ms.model_system) THEN r1
                   ELSE [r1 EXCEPT !.model_system =
                            Append(@, Val(ms.model_system))]
             r3 == [r2 EXCEPT !.model_method = @ + 1]
             out == ParseOutput(r3, dos)
         IN IF ms.exc # ""
            THEN StageResult(r1, c, ms.log, ms.exc)
            ELSE StageResult(out.run, c, ms.log, out.exc)

(***************************************************************************)
(* Inputs.                                                                 *)
(***************************************************************************)
Option(S) == {None} \cup { Some(x) : x \in S }

SymmetryPoints == { <<0, 0, 0>>, <<1, 0, 0>>, <<1, 1, 0>>, <<0, 0, 2>> }

IdentityLattice == << <<1, 0, 0>>, <<0, 1, 0>>, <<0, 0, 1>> >>

ReciprocalLattices ==
    { IdentityLattice, << <<2, 0, 0>>, <<1, 2, 0>>, <<0, 0, 1>> >> }

Segments == SymmetryPoints \X SymmetryPoints

SegmentLists == UNION { [1..n -> Segments] : n \in 0..MaxSegments }

\* .wout files of the k-path specification: every combination of the
\* quantities get_k_points reads
KPathWouts ==
    [ structure : {TRUE},
      lattice_vectors : {TRUE},
      Nwannier : {Some(1)},
      reciprocal_lattice_vectors : Option(ReciprocalLattices),
      n_k_segments : Option(0..MaxSegments),
      div_first_k_segment : Option(0..MaxDiv),
      band_segments_points : SegmentLists ]

KPath(recip, nseg, div, segs) ==
    [ reciprocal_lattice_vectors |-> recip, n_k_segments |-> nseg,
      div_first_k_segment |-> div, band_segments_points |-> segs ]

\* k-path blocks of the full-run specification
RunPaths ==
    { KPath(None, Some(1), Some(2), << <<<<0, 0, 0>>, <<1, 0, 0>>>> >>),
      KPath(Some(IdentityLattice), None, None, <<>>),
      KPath(Some(IdentityLattice), Some(1), Some(2),
            << <<<<0, 0, 0>>, <<1, 0, 0>>>> >>),
      KPath(Some(IdentityLattice), Some(2), Some(1),
            << <<<<0, 0, 0>>, <<1, 0, 0>>>>, <<<<1, 0, 0>>, <<1, 1, 0>>>> >>) }

Wout(structure, lattice, nwannier, path) ==
    [ structure |-> structure, lattice_vectors |-> lattice,
      Nwannier |-> nwannier,
      reciprocal_lattice_vectors |-> path.reciprocal_lattice_vectors,
      n_k_segments |-> path.n_k_segments,
      div_first_k_segment |-> path.div_first_k_segment,
      band_segments_points |-> path.band_segments_points ]

RunWouts ==
    { Wout(s, l, n, p) : s \in BOOLEAN, l \in BOOLEAN,
                         n \in Option({1}), p \in RunPaths }

WinFile(exists, projections) == [read |-> TRUE, exists |-> exists,
                                 projections |-> projections]
WinUnread == [read |-> FALSE, exists |-> FALSE, projections |-> <<>>]
WinFiles ==
    { WinFile(FALSE, <<>>), WinFile(TRUE, <<"Si">>), WinFile(TRUE, <<"Bohr">>),
      WinFile(TRUE, <<"Angstrom", "Si">>), WinFile(TRUE, <<"random">>) }

HrFile(exists, deg, hoppings) == [read |-> TRUE, exists |-> exists,
                                  deg |-> deg, hoppings |-> hoppings]
HrUnread == [read |-> FALSE, exists |-> FALSE, deg |-> <<>>, hoppings |-> <<>>]

\* integer blocks after the "written on" header: num_wann, nrpts, then the
\* degeneracy factors
DegBlocks ==
    { s \in UNION { [1..n -> 0..2] : n \in 0..MaxDeg } :
        /\ Len(s) >= 1 => s[1] = 1
        /\ \A i \in 3..Len(s) : s[i] >= 1 }

HopLens == {0, 7, 9, 14}
HopColumn(n) == [i \in 1..n |-> i - 1]

HrFiles ==
    { HrFile(FALSE, <<>>, <<>>) } \cup
    { HrFile(TRUE, d, HopColumn(n)) : d \in DegBlocks, n \in HopLens }

DataFile(exists, data) == [read |-> TRUE, exists |-> exists, data |-> data]
DataUnread == [read |-> FALSE, exists |-> FALSE, data |-> None]

\* band tables: column 1 of a table with n rows
BandColumn(n) == [i \in 1..n |-> i - 1]
BandFiles ==
    { DataFile(FALSE, None), DataFile(TRUE, None) } \cup
    { DataFile(TRUE, Some(BandColumn(n))) : n \in 2..MaxBandLen }

DosFiles ==
    { DataFile(FALSE, None), DataFile(TRUE, None),
      DataFile(TRUE, Some(<< <<0, 1>>, <<1, 2>> >>)) }

(***************************************************************************)
(* Wannier90Parser.parse: the stages in the order parse and parse_scc run  *)
(* them.                                                                   *)
(***************************************************************************)
NotRaised == [stage |-> "", exc |-> ""]

Finish(stage, next, res) ==
    /\ run' = res.run
    /\ calc' = res.calc
    /\ log' = log \o res.log
    /\ pc' = IF res.exc = "" THEN next ELSE "raised"
    /\ raised' = IF res.exc = "" THEN raised
                 ELSE [stage |-> stage, exc |-> res.exc]

Init ==
    /\ pc = "parse"
    /\ raised = NotRaised
    /\ log = <<>>
    /\ wout \in RunWouts
    /\ win = WinUnread
    /\ hr = HrUnread
    /\ band = DataUnread
    /\ dosfile = DataUnread
    /\ run = EmptyRun
    /\ calc = EmptyCalc
    /\ kres = NoKResult

\* parse, up to the Program section
ParseBegin ==
    /\ pc = "parse"
    /\ run' = [run EXCEPT !.exists = TRUE, !.program = TRUE]
    /\ pc' = "parse_system"
    /\ UNCHANGED <<raised, log, wout, win, hr, band, dosfile, calc, kres>>

ParseSystem ==
    /\ pc = "parse_system"
    /\ Finish("parse_system", "parse_method", ParseSystemResult(run, calc, wout))
    /\ UNCHANGED <<wout, win, hr, band, dosfile, kres>>

ParseMethod ==
    /\ pc = "parse_method"
    /\ Finish("parse_method", "parse_winput", ParseMethodResult(run, calc, wout))
    /\ UNCHANGED <<wout, win, hr, band, dosfile, kres>>

ParseWinput ==
    /\ pc = "parse_winput"
    /\ \E f \in WinFiles :
        /\ win' = f
        /\ Finish("parse_winput", "parse_scc", ParseWinputResult(run, calc, f))
    /\ UNCHANGED <<wout, hr, band, dosfile, kres>>

\* parse_scc, up to the call of parse_hoppings
ParseScc ==
    /\ pc = "parse_scc"
    /\ calc' = [calc EXCEPT !.exists = TRUE]
    /\ pc' = "parse_hoppings"
    /\ UNCHANGED <<raised, log, wout, win, hr, band, dosfile, run, kres>>

ParseHoppingsOn(files) ==
    /\ pc = "parse_hoppings"
    /\ \E f \in files :
        /\ hr' = f
        /\ Finish("parse_hoppings", "parse_bandstructure",
                  ParseHoppingsResult(run, calc, f))
    /\ UNCHANGED <<wout, win, band, dosfile, kres>>

ParseHoppings == ParseHoppingsOn(HrFiles)

\* energy_fermi.to(...) raises before the band file is looked up
FermiUnset == ~IsNone(calc.energy) /\ IsNone(Val(calc.energy).fermi)

ParseBandstructureOn(files) ==
    /\ pc = "parse_bandstructure"
    /\ \E f \in files :
        /\ band' = IF FermiUnset THEN band ELSE f
        /\ Finish("parse_bandstructure", "parse_dos",
                  ParseBandstructureResult(run, calc, wout, f))
        /\ kres' = IF ~FermiUnset /\ f.exists /\ ~IsNone(f.data)
                   THEN GetKPoints(wout) ELSE kres
    /\ UNCHANGED <<wout, win, hr, dosfile>>

ParseBandstructure == ParseBandstructureOn(BandFiles)

ParseDos ==
    /\ pc = "parse_dos"
    /\ \E f \in DosFiles :
        /\ dosfile' = f
        /\ Finish("parse_dos", "workflow", ParseDosResult(run, calc, f))
    /\ UNCHANGED <<wout, win, hr, band, kres>>

SetWorkflow ==
    /\ pc = "workflow"
    /\ run' = [run EXCEPT !.workflow2 = TRUE]
    /\ pc' = "data_parse"
    /\ UNCHANGED <<raised, log, wout, win, hr, band, dosfile, calc, kres>>

\* p = Wannier90ParserData(); p.parse(filepath, archive, logger)
DataParse ==
    /\ pc = "data_parse"
    /\ Finish("data_parse", "done", DataParseResult(run, calc, wout, dosfile))
    /\ UNCHANGED <<wout, win, hr, band, dosfile, kres>>

Next ==
    \/ ParseBegin
    \/ ParseSystem
    \/ ParseMethod
    \/ ParseWinput
    \/ ParseScc
    \/ ParseHoppings
    \/ ParseBandstructure
    \/ ParseDos
    \/ SetWorkflow
    \/ DataParse

Spec == Init /\ [][Next]_vars

(***************************************************************************)
(* get_k_points on its own, over every k-path block.                       *)
(***************************************************************************)
InitK ==
    /\ pc = "get_k_points"
    /\ raised = NotRaised
    /\ log = <<>>
    /\ wout \in KPathWouts
    /\ win = WinUnread
    /\ hr = HrUnread
    /\ band = DataUnread
    /\ dosfile = DataUnread
    /\ run = EmptyRun
    /\ calc = EmptyCalc
    /\ kres = NoKResult

GetKPointsCall ==
    /\ pc = "get_k_points"
    /\ kres' = GetKPoints(wout)
    /\ pc' = "returned"
    /\ UNCHANGED <<raised, log, wout, win, hr, band, dosfile, run, calc>>

NextK == GetKPointsCall

SpecK == InitK /\ [][NextK]_vars

(***************************************************************************)
(* parse_bandstructure on its own: the run has reached the stage through   *)
(* parse_system .. parse_hoppings on a .wout with a complete k-path block, *)
(* and the band table is then drawn from a wider set.                      *)
(***************************************************************************)
BandPoints == { <<0, 0, 0>>, <<1, 0, 0>>, <<1, 1, 0>> }

BandSegmentLists ==
    UNION { [1..n -> BandPoints \X BandPoints] : n \in 1..MaxSegments }

BandWouts ==
    { Wout(TRUE, TRUE, Some(1),
           KPath(Some(IdentityLattice), Some(Len(segs)), Some(d), segs)) :
        segs \in { sl \in BandSegmentLists : sl[1][1] # sl[1][2] },
        d \in 1..MaxDiv }

\* hopping files whose onsite energy (the derived Fermi level) is 5 - s
FermiShifts == 0..5
ShiftedHopColumn(n, s) == [i \in 1..n |-> i - 1 - s]
BandHrFiles ==
    { HrFile(FALSE, <<>>, <<>>), HrFile(TRUE, <<1, 1, 1>>, HopColumn(9)) } \cup
    { HrFile(TRUE, <<1, 1, 1>>, ShiftedHopColumn(7, s)) : s \in FermiShifts }

DescendingColumn(n) == [i \in 1..n |-> n - i]
WideBandFiles ==
    BandFiles \cup
    { DataFile(TRUE, Some(DescendingColumn(n))) : n \in 2..MaxBandLen }

\* the stages before parse_bandstructure, composed
StartedRun == [EmptyRun EXCEPT !.exists = TRUE, !.program = TRUE]
Then(res, next) ==
    [next EXCEPT !.log = res.log \o @]
UpToHoppings(w, wi, h) ==
    LET a == ParseSystemResult(StartedRun, EmptyCalc, w)
        b == Then(a, ParseMethodResult(a.run, a.calc, w))
        c == Then(b, ParseWinputResult(b.run, b.calc, wi))
    IN Then(c, ParseHoppingsResult(c.run, [c.calc EXCEPT !.exists = TRUE], h))

InitBand ==
    /\ pc = "parse_bandstructure"
    /\ raised = NotRaised
    /\ wout \in BandWouts
    /\ win = WinFile(FALSE, <<>>)
    /\ hr \in BandHrFiles
    /\ band = DataUnread
    /\ dosfile = DataUnread
    /\ run = UpToHoppings(wout, win, hr).run
    /\ calc = UpToHoppings(wout, win, hr).calc
    /\ log = UpToHoppings(wout, win, hr).log
    /\ kres = NoKResult

ParseBandstructureWide == ParseBandstructureOn(WideBandFiles)

NextBand == ParseBandstructureWide

SpecBand == InitBand /\ [][NextBand]_vars

(***************************************************************************)
(* parse_hoppings alone, over a wider set of *hr.dat files: blocks with    *)
(* up to MaxFactors degeneracy factors, counts up to MaxWS, one or two     *)
(* Wannier functions, and hopping tables of every matching length.         *)
(***************************************************************************)
HopWouts ==
    { Wout(TRUE, TRUE, n,
           KPath(Some(IdentityLattice), Some(1), Some(1),
                 << << <<0, 0, 0>>, <<1, 0, 0>> >> >>)) :
        n \in Option(1..MaxOrbitals) }

WideDegBlocks ==
    { <<>> } \cup { <<n>> : n \in 1..MaxOrbitals } \cup
    { <<n, nws>> \o f :
        n \in 1..MaxOrbitals, nws \in 0..MaxWS,
        f \in UNION { [1..k -> 1..2] : k \in 0..MaxFactors } }

WideHopLens ==
    {9} \cup { a * b * b * HoppingFields : a \in 0..MaxWS, b \in 1..MaxOrbitals }

WideHrFiles ==
    { HrFile(FALSE, <<>>, <<>>) } \cup
    { HrFile(TRUE, d, HopColumn(n)) : d \in WideDegBlocks, n \in WideHopLens }

\* the stages before parse_hoppings, composed
UpToWinput(w, wi) ==
    LET a == ParseSystemResult(StartedRun, EmptyCalc, w)
        b == Then(a, ParseMethodResult(a.run, a.calc, w))
        c == Then(b, ParseWinputResult(b.run, b.calc, wi))
    IN [c EXCEPT !.calc.exists = TRUE]

InitHop ==
    /\ pc = "parse_hoppings"
    /\ raised = NotRaised
    /\ wout \in HopWouts
    /\ win = WinFile(FALSE, <<>>)
    /\ hr = HrUnread
    /\ band = DataUnread
    /\ dosfile = DataUnread
    /\ run = UpToWinput(wout, win).run
    /\ calc = UpToWinput(wout, win).calc
    /\ log = UpToWinput(wout, win).log
    /\ kres = NoKResult

ParseHoppingsWide == ParseHoppingsOn(WideHrFiles)

NextHop == ParseHoppingsWide

SpecHop == InitHop /\ [][NextHop]_vars

(***************************************************************************)
(* parse_dos alone, over every *dos.dat table of 2..MaxDosRows rows with   *)
(* entries in DosValues (energies in any order), after a hopping stage     *)
(* that derived a Fermi level, derived none, or found no file.             *)
(***************************************************************************)
DosValues == 0..2
DosRows == DosValues \X DosValues
WideDosFiles ==
    { DataFile(FALSE, None), DataFile(TRUE, None) } \cup
    { DataFile(TRUE, Some(t)) :
        t \in UNION { [1..n -> DosRows] : n \in 2..MaxDosRows } }

InitDos ==
    /\ pc = "parse_dos"
    /\ raised = NotRaised
    /\ wout \in HopWouts
    /\ win = WinFile(FALSE, <<>>)
    /\ hr \in BandHrFiles
    /\ band = DataFile(FALSE, None)
    /\ dosfile = DataUnread
    /\ run = UpToHoppings(wout, win, hr).run
    /\ calc = UpToHoppings(wout, win, hr).calc
    /\ log = UpToHoppings(wout, win, hr).log
    /\ kres = NoKResult

ParseDosWide ==
    /\ pc = "parse_dos"
    /\ \E f \in WideDosFiles :
        /\ dosfile' = f
        /\ Finish("parse_dos", "workflow", ParseDosResult(run, calc, f))
    /\ UNCHANGED <<wout, win, hr, band, kres>>

NextDos == ParseDosWide

SpecDos == InitDos /\ [][NextDos]_vars

(***************************************************************************)
(* Properties.                                                             *)
(***************************************************************************)
FermiMessage ==
    "Error setting the Fermi level: not found from hoppings. Setting it to 0 eV"
Logged(stage, text) ==
    \E i \in 1..Len(log) : log[i].stage = stage /\ log[i].text = text

\* parse_hoppings left no Fermi level in the calculation
NoFermiDerived == IsNone(calc.energy) \/ IsNone(Val(calc.energy).fermi)

\* parse_bandstructure has been called and has returned or raised
BandStageRan ==
    \/ pc \in {"parse_dos", "workflow", "data_parse", "done"}
    \/ raised.stage \in {"parse_bandstructure", "parse_dos", "data_parse"}

BandStructures == calc.band_structure_electronic
BandIndices == 1..Len(BandStructures)

\* the band energies of one band structure, all segments in path order
SegmentRows(bs) ==
    Concat([n \in 1..Len(bs.segment) |-> bs.segment[n].energies[1]])

\* C1: whenever parse_hoppings derived no Fermi level, parse_bandstructure
\* falls back to 0.0 eV with a warning, is not aborted by the missing
\* value, and every band structure it attaches carries the fallback and
\* occupations computed from it.
C1_FermiFallback ==
    (BandStageRan /\ NoFermiDerived) =>
        /\ ~(raised.stage = "parse_bandstructure" /\ raised.exc = "AttributeError")
        /\ Logged("parse_bandstructure", FermiMessage)
        /\ \A b \in BandIndices :
            /\ BandStructures[b].energy_fermi = 0
            /\ \A n \in 1..Len(BandStructures[b].segment) :
                LET seg == BandStructures[b].segment[n] IN
                \A j \in 1..seg.n_kpoints : \A k \in 1..Len(seg.energies[1][j]) :
                    seg.occupations[1][j][k] =
                        (IF seg.energies[1][j][k] < 0 THEN 2 ELSE 0)

\* C2: no exception leaves parse_hoppings, parse_bandstructure or parse_dos,
\* whatever the companion inputs are.
C2_FailuresContained ==
    raised.stage \notin {"parse_hoppings", "parse_bandstructure", "parse_dos"}

\* C3: with the .wout file present, parse runs every stage and returns
\* normally.
C3_ParseReturnsNormally ==
    /\ pc # "raised"
    /\ pc = "done" => (calc.exists /\ run.workflow2 /\ run.data)

BandReshapeMessage == "Could not reshape the bands into the NOMAD dimensions."

\* C4: when the band column cannot be reshaped, a warning is logged and no
\* BandStructure section is left attached to the calculation.
C4_DroppedOnReshapeFailure ==
    Logged("parse_bandstructure", BandReshapeMessage) => BandStructures = <<>>

HoppingMessage ==
    "Could not parse the hopping matrix values. Please, revise your output files."

\* the hopping file was read and its value count differs from
\* n_wigner_seitz_points * n_orbitals^2 * 7
HoppingCountMismatch ==
    /\ hr.read /\ hr.exists /\ Len(hr.deg) >= 2
    /\ ~IsNone(wout.Nwannier)
    /\ Len(hr.hoppings) #
         hr.deg[2] * (Val(wout.Nwannier) * Val(wout.Nwannier)) * HoppingFields

\* what C5 says of the HoppingMatrix section itself
HoppingMismatchHandled ==
    /\ Len(calc.hopping_matrix) = 1
    /\ IsNone(calc.hopping_matrix[1].value)
    /\ calc.hopping_matrix[1].n_wigner_seitz_points = Some(hr.deg[2])
    /\ calc.hopping_matrix[1].degeneracy_factors =
           Some(SubSeq(hr.deg, 3, Len(hr.deg)))
    /\ Logged("parse_hoppings", HoppingMessage)

\* C5: on a hopping value count mismatch the matrix value stays absent, a
\* warning is logged, n_wigner_seitz_points and degeneracy_factors stay
\* populated, and the parse continues: neither parse_hoppings nor the unset
\* Fermi level it leaves behind ends the run.
C5_HoppingMismatchContinues ==
    HoppingCountMismatch =>
        /\ HoppingMismatchHandled
        /\ raised.stage # "parse_hoppings"
        /\ ~(raised.stage = "parse_bandstructure" /\ raised.exc = "AttributeError")

\* the part of C5 that concerns parse_hoppings alone
C5_HoppingStageAlone ==
    HoppingCountMismatch => (HoppingMismatchHandled /\ raised.stage # "parse_hoppings")

\* C6: a returned k-path satisfies sum(counts) = total, every segment's
\* k-point list has the segment's count, and all lists together have total
\* entries.
C6_Partition ==
    kres.outcome = "ok" =>
        /\ Len(kres.band_segments_points) >= 1
        /\ Len(kres.kpoints) = Len(kres.band_segments_points)
        /\ SumSeq(kres.band_segments_points) = kres.n_kpoints
        /\ \A n \in 1..Len(kres.kpoints) :
               Len(kres.kpoints[n]) = kres.band_segments_points[n]
        /\ Len(Concat(kres.kpoints)) = kres.n_kpoints

C6_Witness ==
    /\ pc = "returned" /\ kres.outcome = "ok"
    /\ Len(kres.band_segments_points) = 2
    /\ kres.band_segments_points[1] >= 2
    /\ kres.band_segments_points[2] >= 3

\* the band stage attached a band structure with segments
BandsAssembled ==
    /\ band.read /\ band.exists /\ ~IsNone(band.data)
    /\ kres.outcome = "ok"
    /\ Len(BandStructures) = 1
    /\ BandStructures[1].segment # <<>>

\* C7: when len(flat) is a multiple of total_point_count, flat[i] ends up
\* at k-point (i mod total) and band (i div total) of the assembled grid,
\* and the number of bands is round(len(flat) / total).
C7_Placement ==
    (/\ band.read /\ band.exists /\ ~IsNone(band.data)
     /\ pc # "raised" /\ kres.outcome = "ok"
     /\ Len(Val(band.data)) % kres.n_kpoints = 0) =>
        /\ BandsAssembled
        /\ LET flat == Val(band.data)
               nk == kres.n_kpoints
               rows == SegmentRows(BandStructures[1])
           IN /\ Len(rows) = nk
              /\ \A k \in 1..Len(rows) : Len(rows[k]) = RoundDiv(Len(flat), nk)
              /\ \A i \in 0..(Len(flat) - 1) :
                    rows[(i % nk) + 1][(i \div nk) + 1] = flat[i + 1]

C7_Witness ==
    /\ BandsAssembled
    /\ kres.n_kpoints = 3
    /\ Len(Val(band.data)) = 6
    /\ Len(BandStructures[1].segment) = 2

\* C8: every occupation is 2.0 where the energy is strictly below the Fermi
\* level and 0.0 elsewhere, an energy equal to the Fermi level included.
C8_Occupation ==
    \A b \in BandIndices :
        \A n \in 1..Len(BandStructures[b].segment) :
            LET seg == BandStructures[b].segment[n]
                ef == BandStructures[b].energy_fermi
            IN /\ Len(seg.occupations) = NSpin
               /\ \A j \in 1..seg.n_kpoints :
                    \A k \in 1..Len(seg.energies[1][j]) :
                        /\ seg.energies[1][j][k] < ef => seg.occupations[1][j][k] = 2
                        /\ seg.energies[1][j][k] >= ef => seg.occupations[1][j][k] = 0

\* some cell lies below, some at and some above the Fermi level
C8_Witness ==
    /\ BandsAssembled
    /\ LET rows == SegmentRows(BandStructures[1])
           ef == BandStructures[1].energy_fermi
       IN /\ \E k \in 1..Len(rows) : \E m \in 1..Len(rows[k]) : rows[k][m] = ef
          /\ \E k \in 1..Len(rows) : \E m \in 1..Len(rows[k]) : rows[k][m] < ef
          /\ \E k \in 1..Len(rows) : \E m \in 1..Len(rows[k]) : rows[k][m] > ef

\* C9: the segments are consecutive row ranges of the grid in path order:
\* the first starts at row 0, each starts where the one before ends, each
\* is as wide as its point count, the last ends at total_point_count, and
\* each holds exactly the grid rows of its range.
C9_SegmentsPartition ==
    BandsAssembled =>
        LET segs == BandStructures[1].segment
            flat == Val(band.data)
            nk == kres.n_kpoints
        IN /\ Len(segs) = Len(kres.band_segments_points)
           /\ segs[1].bkp_init = 0
           /\ segs[Len(segs)].bkp_last = nk
           /\ \A n \in 1..Len(segs) :
                /\ segs[n].bkp_last - segs[n].bkp_init = kres.band_segments_points[n]
                /\ n > 1 => segs[n].bkp_init = segs[n - 1].bkp_last
                /\ Len(segs[n].energies[1]) = kres.band_segments_points[n]
                /\ \A j \in 1..Len(segs[n].energies[1]) :
                     \A m \in 1..Len(segs[n].energies[1][j]) :
                        segs[n].energies[1][j][m] =
                            flat[(m - 1) * nk + segs[n].bkp_init + j]

C9_Witness ==
    /\ BandsAssembled
    /\ Len(BandStructures[1].segment) = 2
    /\ BandStructures[1].segment[1].n_kpoints >= 1
    /\ BandStructures[1].segment[2].n_kpoints >= 2
    /\ Len(BandStructures[1].segment[2].energies[1][1]) >= 2

\* a path of exactly one segment of non-zero length with d >= 1 divisions
SingleSegmentPath ==
    /\ ~IsNone(wout.reciprocal_lattice_vectors)
    /\ wout.n_k_segments = Some(1)
    /\ Len(wout.band_segments_points) = 1
    /\ ~IsNone(wout.div_first_k_segment)
    /\ Val(wout.div_first_k_segment) >= 1
    /\ SegLenSq(wout, 1) > 0

\* C10: for one segment of non-zero length and d >= 1 divisions,
\* get_k_points returns the counts [d+1] and the total d+1.
C10_SingleSegment ==
    (pc = "returned" /\ SingleSegmentPath) =>
        /\ kres.outcome = "ok"
        /\ kres.band_segments_points = << Val(wout.div_first_k_segment) + 1 >>
        /\ kres.n_kpoints = Val(wout.div_first_k_segment) + 1

C10_Witness ==
    /\ pc = "returned" /\ SingleSegmentPath
    /\ Val(wout.div_first_k_segment) = 3
    /\ kres.n_kpoints = 4

\* c is the integer nearest to sqrt(num / den), the even one of the two on
\* a tie: stated on the squares, (2c-1)^2 den <= 4 num <= (2c+1)^2 den
NearestTiesEven(c, num, den) ==
    /\ c >= 0
    /\ c > 0 => (2 * c - 1) * (2 * c - 1) * den <= 4 * num
    /\ 4 * num <= (2 * c + 1) * (2 * c + 1) * den
    /\ (c > 0 /\ (2 * c - 1) * (2 * c - 1) * den = 4 * num) => c % 2 = 0
    /\ (2 * c + 1) * (2 * c + 1) * den = 4 * num => c % 2 = 0

\* the count of segment n before the increment of the last segment
CountBeforeIncrement(n) ==
    IF n = Len(kres.band_segments_points)
    THEN kres.band_segments_points[n] - 1
    ELSE kres.band_segments_points[n]

\* C11: every segment's point count, before the last segment's increment,
\* is round(|segment| / delta_k), ties to even, with delta_k = |first
\* declared segment| / div_first_k_segment: it depends on the segment's own
\* length, the first segment's length and the division count only.
C11_FirstSegmentStep ==
    kres.outcome = "ok" =>
        \A n \in 1..Len(kres.band_segments_points) :
            NearestTiesEven(CountBeforeIncrement(n),
                Val(wout.div_first_k_segment) * Val(wout.div_first_k_segment)
                    * SegLenSq(wout, n),
                SegLenSq(wout, 1))

\* a later segment half as long as the first: 0.5 rounds to 0, 1.5 to 2
C11_Witness ==
    /\ pc = "returned" /\ kres.outcome = "ok"
    /\ Len(kres.band_segments_points) = 2
    /\ Val(wout.div_first_k_segment) = 3
    /\ 4 * SegLenSq(wout, 2) = SegLenSq(wout, 1)
    /\ CountBeforeIncrement(2) = 2
    /\ kres.band_segments_points[1] = 3

\* C12: segment n with count c holds start + i*(end - start)/c for
\* i = 0..c-1, none of them the segment's end point; the last segment alone
\* has one more entry, the end point of the path, and its count is c + 1.
C12_SegmentPoints ==
    kres.outcome = "ok" =>
        \A n \in 1..Len(kres.kpoints) :
            LET c == CountBeforeIncrement(n)
                seg == wout.band_segments_points[n]
                last == n = Len(kres.kpoints)
            IN /\ c >= 0
               /\ Len(kres.kpoints[n]) = (IF last THEN c + 1 ELSE c)
               /\ \A i \in 0..(c - 1) :
                    /\ kres.kpoints[n][i + 1].den = c
                    /\ kres.kpoints[n][i + 1].num =
                         VAdd(VScale(c, seg[1]), VScale(i, VSub(seg[2], seg[1])))
                    /\ kres.kpoints[n][i + 1].num # VScale(c, seg[2])
               /\ last => kres.kpoints[n][c + 1] = [num |-> seg[2], den |-> 1]

C12_Witness ==
    /\ pc = "returned" /\ kres.outcome = "ok"
    /\ Len(kres.kpoints) = 2
    /\ Len(kres.kpoints[1]) = 3
    /\ Len(kres.kpoints[2]) = 4
    /\ wout.band_segments_points[1][2] # wout.band_segments_points[2][2]

\* C13: a division count of 0 is rejected: get_k_points derives no path
\* from it.
C13_ZeroDivisionsRejected ==
    (/\ pc = "returned"
     /\ ~IsNone(wout.reciprocal_lattice_vectors)
     /\ wout.div_first_k_segment = Some(0)) => kres.outcome # "ok"

\* the stage logged a warning other than the one about the Fermi level
WarnedBy(stage) ==
    \E i \in 1..Len(log) :
        /\ log[i].stage = stage
        /\ log[i].level = "warning"
        /\ log[i].text # FermiMessage

\* the stage has been called, did not raise, and the stage after it was
\* entered
StagePassed(stage, later) ==
    /\ raised.stage # stage
    /\ pc \in later \/ raised.stage \in later

\* C14: a stage that finds its companion file (*hr.dat, *band.dat, *dos.dat)
\* missing logs a warning, adds no section of its own, raises nothing, and
\* the stages after it run.
C14_MissingFileWarned ==
    /\ (hr.read /\ ~hr.exists) =>
           /\ WarnedBy("parse_hoppings")
           /\ calc.hopping_matrix = <<>>
           /\ StagePassed("parse_hoppings",
                  {"parse_bandstructure", "parse_dos", "workflow",
                   "data_parse", "done"})
    /\ (band.read /\ ~band.exists) =>
           /\ WarnedBy("parse_bandstructure")
           /\ calc.band_structure_electronic = <<>>
           /\ StagePassed("parse_bandstructure",
                  {"parse_dos", "workflow", "data_parse", "done"})
    /\ (dosfile.read /\ ~dosfile.exists) =>
           /\ WarnedBy("parse_dos")
           /\ calc.dos_electronic = <<>>
           /\ StagePassed("parse_dos", {"workflow", "data_parse", "done"})

\* what the stages do for a missing file, the warning left aside
C14_MissingFileSkipped ==
    /\ (hr.read /\ ~hr.exists) =>
           /\ calc.hopping_matrix = <<>>
           /\ StagePassed("parse_hoppings",
                  {"parse_bandstructure", "parse_dos", "workflow",
                   "data_parse", "done"})
    /\ (band.read /\ ~band.exists) =>
           /\ calc.band_structure_electronic = <<>>
           /\ StagePassed("parse_bandstructure",
                  {"parse_dos", "workflow", "data_parse", "done"})
    /\ (dosfile.read /\ ~dosfile.exists) =>
           /\ calc.dos_electronic = <<>>
           /\ StagePassed("parse_dos", {"workflow", "data_parse", "done"})

\* parse_system has been called and has returned or raised
SystemStageRan == pc \notin {"parse", "parse_system"}

\* Wannier90ParserData.parse has been called and has returned or raised
DataStageRan == pc = "done" \/ raised.stage = "data_parse"

\* C15: without a structure block, parse_system logs an error, leaves the
\* legacy system without atoms and the parse goes on; the data stage logs an
\* error, adds no ModelSystem, and goes on to add the method and the outputs.
C15_NoStructureOmitted ==
    ~wout.structure =>
        /\ SystemStageRan =>
              /\ \E i \in 1..Len(log) :
                     log[i].level = "error" /\ log[i].stage = "parse_system"
              /\ Len(run.system) = 1
              /\ IsNone(run.system[1].atoms)
              /\ raised.stage # "parse_system"
        /\ pc \in {"parse_scc", "parse_hoppings", "parse_bandstructure",
                   "parse_dos", "workflow", "data_parse", "done"}
              => Len(run.method) = 1
        /\ DataStageRan =>
              /\ \E i \in 1..Len(log) :
                     log[i].level = "error" /\ log[i].stage = "data_parse"
              /\ run.model_system = <<>>
              /\ run.model_method = 1
              /\ Len(run.outputs) = 1
              /\ raised.stage # "data_parse"

\* the part of C15 about the legacy system and the method stage
C15_LegacySystemOmitted ==
    ~wout.structure =>
        /\ SystemStageRan =>
              /\ \E i \in 1..Len(log) :
                     log[i].level = "error" /\ log[i].stage = "parse_system"
              /\ Len(run.system) = 1
              /\ IsNone(run.system[1].atoms)
              /\ raised.stage # "parse_system"
        /\ pc \in {"parse_scc", "parse_hoppings", "parse_bandstructure",
                   "parse_dos", "workflow", "data_parse", "done"}
              => Len(run.method) = 1

\* the order in which parse and parse_scc enter the stages
StageOrder ==
    << "parse", "parse_system", "parse_method", "parse_winput", "parse_scc",
       "parse_hoppings", "parse_bandstructure", "parse_dos", "workflow",
       "data_parse", "done" >>
StageIndex(p) == CHOOSE i \in 1..Len(StageOrder) : StageOrder[i] = p

\* a stage is entered only when the stage before it has returned
EntersInOrder ==
    pc' # pc /\ pc' # "raised" => StageIndex(pc') = StageIndex(pc) + 1

\* every band structure carries the Fermi level parse_hoppings derived, and
\* the fallback 0.0 eV (with its warning) only when none was derived; the
\* occupations are computed from the value it carries
UsesDerivedFermi ==
    \A b \in BandIndices :
        /\ IF NoFermiDerived
           THEN /\ BandStructures[b].energy_fermi = 0
                /\ Logged("parse_bandstructure", FermiMessage)
           ELSE /\ BandStructures[b].energy_fermi = Val(Val(calc.energy).fermi)
                /\ ~Logged("parse_bandstructure", FermiMessage)
        /\ \A n \in 1..Len(BandStructures[b].segment) :
             LET seg == BandStructures[b].segment[n]
             IN \A i \in 1..Len(seg.energies[1]) :
                  \A j \in 1..Len(seg.energies[1][i]) :
                     seg.occupations[1][i][j] = 2
                        <=> seg.energies[1][i][j] < BandStructures[b].energy_fermi

\* what has run when a stage is entered
RanBefore ==
    /\ (pc = "parse_hoppings" \/ hr.read) => Len(run.method) = 1
    /\ (pc = "parse_bandstructure" \/ band.read
            \/ raised.stage = "parse_bandstructure") =>
         hr.read /\ raised.stage # "parse_hoppings"
    /\ (pc = "parse_dos" \/ dosfile.read \/ raised.stage = "parse_dos") =>
         /\ hr.read /\ band.read
         /\ raised.stage \notin {"parse_hoppings", "parse_bandstructure"}

\* C16: the stages run in the fixed order method, hoppings, band structure,
\* DOS, each entered only after the one before returned; the band structure
\* uses the Fermi level the hopping stage derived whenever it derived one,
\* and the fallback only otherwise.
C16_StageOrder ==
    /\ [](RanBefore /\ UsesDerivedFermi)
    /\ [][EntersInOrder]_vars

\* a full scc with a derived Fermi level above 0 and an occupied band at a
\* non-negative energy, which the fallback would leave empty
C16_Witness ==
    /\ pc = "workflow"
    /\ dosfile.read /\ dosfile.exists
    /\ ~NoFermiDerived
    /\ \E b \in BandIndices :
         /\ BandStructures[b].energy_fermi > 0
         /\ \E n \in 1..Len(BandStructures[b].segment) :
              LET seg == BandStructures[b].segment[n]
              IN \E i \in 1..Len(seg.energies[1]) :
                   \E j \in 1..Len(seg.energies[1][i]) :
                      /\ seg.energies[1][i][j] >= 0
                      /\ seg.occupations[1][i][j] = 2

HoppingMatrices == calc.hopping_matrix
HoppingStageRan == hr.read

\* C17: in every hopping matrix built from an integer block of at least two
\* entries, n_wigner_seitz_points is the block's second integer and
\* degeneracy_factors are the integers from the third onward, in order; the
\* first integer is not used.
C17_HeaderSplit ==
    (HoppingStageRan /\ hr.exists /\ Len(hr.deg) >= 2) =>
        /\ Len(HoppingMatrices) = 1
        /\ HoppingMatrices[1].n_wigner_seitz_points = Some(hr.deg[2])
        /\ ~IsNone(HoppingMatrices[1].degeneracy_factors)
        /\ LET df == Val(HoppingMatrices[1].degeneracy_factors)
           IN /\ Len(df) = Len(hr.deg) - 2
              /\ \A i \in 1..Len(df) : df[i] = hr.deg[i + 2]

\* a block whose first integer differs from its second and whose two
\* factors differ
C17_Witness ==
    /\ HoppingStageRan /\ Len(HoppingMatrices) = 1
    /\ Len(hr.deg) = 4
    /\ hr.deg[1] # hr.deg[2]
    /\ hr.deg[3] # hr.deg[4]
    /\ HoppingMatrices[1].n_wigner_seitz_points = Some(hr.deg[2])

\* C18: every hopping matrix with a Wigner-Seitz count has exactly that many
\* degeneracy factors.
C18_DegeneracyLength ==
    \A i \in 1..Len(HoppingMatrices) :
        ~IsNone(HoppingMatrices[i].n_wigner_seitz_points) =>
            /\ ~IsNone(HoppingMatrices[i].degeneracy_factors)
            /\ Len(Val(HoppingMatrices[i].degeneracy_factors))
                  = Val(HoppingMatrices[i].n_wigner_seitz_points)

\* entry (a, b, f), 0-based, of the hopping table of the file read as an
\* array of shape (nws, norb * norb, 7)
TableEntry(a, b, f, norb) ==
    hr.hoppings[(a * (norb * norb) + b) * 7 + f + 1]

\* C19: when the hopping values were reshaped and there is at least one
\* Wigner-Seitz point, the Fermi level (and highest occupied energy) of the
\* Energy section is the table entry at Wigner-Seitz index
\* floor(n_wigner_seitz_points / 2), orbital pair 0, field 5; with no
\* Wigner-Seitz point no Fermi level is derived.
C19_FermiFromOnsite ==
    \A i \in 1..Len(HoppingMatrices) :
        ~IsNone(HoppingMatrices[i].value) =>
            LET nws == Val(HoppingMatrices[i].n_wigner_seitz_points)
                norb == Val(HoppingMatrices[i].n_orbitals)
                half == CHOOSE h \in 0..nws : 2 * h <= nws /\ nws < 2 * h + 2
            IN /\ ~IsNone(calc.energy)
               /\ IF nws = 0
                  THEN IsNone(Val(calc.energy).fermi)
                  ELSE /\ Val(calc.energy).fermi
                            = Some(TableEntry(half, 0, 5, norb))
                       /\ Val(calc.energy).highest_occupied
                            = Val(calc.energy).fermi

\* three Wigner-Seitz points and two orbitals: index 1 of 0..2
C19_Witness ==
    /\ HoppingStageRan /\ Len(HoppingMatrices) = 1
    /\ HoppingMatrices[1].n_wigner_seitz_points = Some(3)
    /\ HoppingMatrices[1].n_orbitals = Some(2)
    /\ ~IsNone(HoppingMatrices[1].value)
    /\ ~IsNone(calc.energy)
    /\ Val(calc.energy).fermi = Some(hr.hoppings[34])

\* C20: in every band segment energies and occupations both have shape
\* (1, n_kpoints, n_bands), n_kpoints being the number of entries of the
\* segment's k-point list and n_bands one number for the whole band
\* structure.
C20_SegmentShapes ==
    \A b \in BandIndices :
        \E nb \in 1..MaxBandLen :
            \A n \in 1..Len(BandStructures[b].segment) :
                LET seg == BandStructures[b].segment[n]
                IN /\ Len(seg.energies) = 1
                   /\ Len(seg.occupations) = 1
                   /\ Len(seg.kpoints) = seg.n_kpoints
                   /\ Len(seg.energies[1]) = seg.n_kpoints
                   /\ Len(seg.occupations[1]) = seg.n_kpoints
                   /\ \A i \in 1..seg.n_kpoints :
                        /\ Len(seg.energies[1][i]) = nb
                        /\ Len(seg.occupations[1][i]) = nb

\* two segments of different point counts and more than one band
C20_Witness ==
    \E b \in BandIndices :
        /\ Len(BandStructures[b].segment) = 2
        /\ BandStructures[b].segment[1].n_kpoints = 1
        /\ BandStructures[b].segment[2].n_kpoints = 2
        /\ Len(BandStructures[b].segment[2].energies[1][2]) = 2
        /\ Len(BandStructures[b].segment[2].occupations[1][2]) = 2

DosSections == calc.dos_electronic

\* C21: the Dos section built from a table holds column 0 as energies and
\* column 1 as the values of its one total entry, row for row: both have as
\* many entries as the table has rows, n_energies is that number, and entry
\* i of each comes from row i.
C21_DosPairing ==
    (dosfile.read /\ dosfile.exists /\ ~IsNone(dosfile.data)) =>
        /\ Len(DosSections) = 1
        /\ LET rows == Val(dosfile.data)
               dos == DosSections[1]
           IN /\ dos.n_energies = Some(Len(rows))
              /\ ~IsNone(dos.energies)
              /\ Len(Val(dos.energies)) = Len(rows)
              /\ Len(dos.total) = 1
              /\ Len(dos.total[1].value) = Len(rows)
              /\ \A i \in 1..Len(rows) :
                    /\ Val(dos.energies)[i] = rows[i][1]
                    /\ dos.total[1].value[i] = rows[i][2]

\* a table of three rows whose energies are not in order, whose values
\* differ from row to row and from the energies
C21_Witness ==
    /\ pc = "workflow"
    /\ Len(DosSections) = 1
    /\ DosSections[1].n_energies = Some(3)
    /\ Val(DosSections[1].energies) = <<2, 0, 1>>
    /\ DosSections[1].total[1].value = <<1, 2, 0>>

\* C22: once parse_hoppings has returned from an existing *hr.dat, the
\* calculation has an Energy section whose fermi and highest_occupied are
\* equal, both set or both unset; with no *hr.dat there is no Energy
\* section.
C22_EnergyAttached ==
    HoppingStageRan =>
        IF hr.exists
        THEN raised.stage # "parse_hoppings" =>
                /\ ~IsNone(calc.energy)
                /\ Val(calc.energy).fermi = Val(calc.energy).highest_occupied
        ELSE IsNone(calc.energy)

\* a file whose table was reshaped and gave a Fermi level
C22_Witness ==
    /\ pc = "parse_bandstructure"
    /\ HoppingStageRan /\ hr.exists
    /\ Len(hr.deg) = 4
    /\ ~IsNone(calc.energy)
    /\ ~IsNone(Val(calc.energy).fermi)
    /\ ~IsNone(Val(calc.energy).highest_occupied)

====
